---- MODULE Spec2Model ----
(***************************************************************************)
(* Model of wayfire's box / displacement algebra (wayfire/geometry.hpp)    *)
(* and of the triple-buffered toplevel state (wayfire/toplevel.hpp).       *)
(*                                                                         *)
(* Two specifications are given:                                           *)
(*   Spec          the toplevel state record: plugins write the pending    *)
(*                 copy, a transaction commits it, the client              *)
(*                 acknowledges;                                           *)
(*   SpecGeometry  the pure functions of geometry.hpp and the margin       *)
(*                 helpers of toplevel.hpp, applied to inputs drawn from   *)
(*                 bounded sets.                                           *)
(***************************************************************************)
EXTENDS Integers, FiniteSets, Sequences, TLC

VARIABLES _current, _pending, _committed, generation, applied, ack, lastOp, caller, nwrites,
          in_box, in_to, in_delta, in_edges, in_max, out, op

vars ==
    <<_current, _pending, _committed, generation, applied, ack, lastOp, caller, nwrites,
      in_box, in_to, in_delta, in_edges, in_max, out, op>>

toplevel_vars ==
    <<_current, _pending, _committed, generation, applied, ack, lastOp, caller, nwrites>>

geometry_vars ==
    <<in_box, in_to, in_delta, in_edges, in_max, out, op>>

(***************************************************************************)
(* Bounds of the model.                                                    *)
(***************************************************************************)
\* Largest x / y coordinate of an input box (the smallest is MinCoord).
MaxCoord ==
    0

\* Largest width / height of an input box (the smallest is MinSize < 0).
MaxSize ==
    1

\* Largest field of an input displacement (the smallest is MinDelta < 0).
MaxDelta ==
    1

\* Number of transactions issued in one run.
MaxGeneration ==
    2

\* Number of writes to the pending copy in one run.
MaxWrites ==
    2

MinCoord ==
    0 - 1

MinSize ==
    0 - 1

MinDelta ==
    0 - 1

(***************************************************************************)
(* Edge flags (wlr_edges) and bit tests.                                   *)
(***************************************************************************)
WLR_EDGE_NONE ==
    0

WLR_EDGE_TOP ==
    1

WLR_EDGE_BOTTOM ==
    2

WLR_EDGE_LEFT ==
    4

WLR_EDGE_RIGHT ==
    8

\* (mask & bit) != 0 for a single-bit flag.
HasEdge(mask, bit) ==
    (mask \div bit) % 2 = 1

TILED_EDGES_HORIZONTAL ==
    WLR_EDGE_LEFT + WLR_EDGE_RIGHT

TILED_EDGES_VERTICAL ==
    WLR_EDGE_TOP + WLR_EDGE_BOTTOM

TILED_EDGES_ALL ==
    TILED_EDGES_HORIZONTAL + TILED_EDGES_VERTICAL

(***************************************************************************)
(* geometry.hpp: boxes, corner rectangles and displacements.               *)
(***************************************************************************)
\* wf::geometry_t = wlr_box, aggregate {x, y, width, height}.
geometry_t(x, y, width, height) ==
    [x |-> x, y |-> y, width |-> width, height |-> height]

\* rectangle_t(int x1, int y1, int x2, int y2)
rectangle_t(x1, y1, x2, y2) ==
    [x1 |-> x1, y1 |-> y1, x2 |-> x2, y2 |-> y2]

\* A plausible slip: the far corner taken to be the size.
rectangle_from_geometry_size(g) ==
    rectangle_t(g.x, g.y, g.width, g.height)

\* rectangle_t(geometry_t g)
rectangle_from_geometry(g) ==
    rectangle_t(g.x, g.y, g.x + g.width, g.y + g.height)

\* A plausible slip: the far corner returned as the size.
rectangle_to_geometry_corner(r) ==
    geometry_t(r.x1, r.y1, r.x2, r.y2)

\* rectangle_t::operator geometry_t()
rectangle_to_geometry(r) ==
    geometry_t(r.x1, r.y1, r.x2 - r.x1, r.y2 - r.y1)

\* struct geometry_difference_t {left, right, bottom, top}
geometry_difference_t(left, right, bottom, top) ==
    [left |-> left, right |-> right, bottom |-> bottom, top |-> top]

\* geometry_t operator +(geometry_t const& g, geometry_difference_t const& m)
operator_plus(g, m) ==
    geometry_t(g.x - m.left, g.y - m.top,
               g.width + m.left + m.right, g.height + m.top + m.bottom)

\* geometry_t operator -(geometry_t const& g, geometry_difference_t const& m)
operator_minus(g, m) ==
    geometry_t(g.x + m.left, g.y + m.top,
               g.width - m.left - m.right, g.height - m.top - m.bottom)

\* A plausible slip: the right and bottom displacements taken from the sizes alone.
operator_difference_sizes(to, from) ==
    [left   |-> from.x - to.x,
     right  |-> to.width - from.width,
     bottom |-> to.height - from.height,
     top    |-> from.y - to.y]

\* geometry_difference_t operator -(geometry_t const& to, geometry_t const& from)
operator_difference(to, from) ==
    [left   |-> from.x - to.x,
     right  |-> to.x + to.width - (from.x + from.width),
     bottom |-> to.y + to.height - (from.y + from.height),
     top    |-> from.y - to.y]

\* A plausible slip: top left as it is.
operator_negate_keeps_top(delta) ==
    [left |-> 0 - delta.left, right |-> 0 - delta.right,
     bottom |-> 0 - delta.bottom, top |-> delta.top]

\* geometry_difference_t operator -(geometry_difference_t const& delta)
operator_negate(delta) ==
    [left |-> 0 - delta.left, right |-> 0 - delta.right,
     bottom |-> 0 - delta.bottom, top |-> 0 - delta.top]

\* The default argument `delta = {}` of expand_geometry_if.
zero_difference ==
    geometry_difference_t(0, 0, 0, 0)

\* A plausible slip: the right edge selected by the left edge's bit.
expand_geometry_if_left_bit(geometry_in, tiled_edges, tiled_edge_delta, delta) ==
    LET rectangle == rectangle_from_geometry(geometry_in)
        x1 == rectangle.x1 - (IF HasEdge(tiled_edges, WLR_EDGE_LEFT)
                                THEN tiled_edge_delta.left ELSE delta.left)
        y1 == rectangle.y1 - (IF HasEdge(tiled_edges, WLR_EDGE_TOP)
                                THEN tiled_edge_delta.top ELSE delta.top)
        x2 == rectangle.x2 + (IF HasEdge(tiled_edges, WLR_EDGE_LEFT)
                                THEN tiled_edge_delta.right ELSE delta.right)
        y2 == rectangle.y2 + (IF HasEdge(tiled_edges, WLR_EDGE_BOTTOM)
                                THEN tiled_edge_delta.bottom ELSE delta.bottom)
    IN  rectangle_to_geometry(rectangle_t(x1, y1, x2, y2))

\* expand_geometry_if(geometry_in, tiled_edges, tiled_edge_delta, delta)
expand_geometry_if(geometry_in, tiled_edges, tiled_edge_delta, delta) ==
    LET rectangle == rectangle_from_geometry(geometry_in)
        x1 == rectangle.x1 - (IF HasEdge(tiled_edges, WLR_EDGE_LEFT)
                                THEN tiled_edge_delta.left ELSE delta.left)
        y1 == rectangle.y1 - (IF HasEdge(tiled_edges, WLR_EDGE_TOP)
                                THEN tiled_edge_delta.top ELSE delta.top)
        x2 == rectangle.x2 + (IF HasEdge(tiled_edges, WLR_EDGE_RIGHT)
                                THEN tiled_edge_delta.right ELSE delta.right)
        y2 == rectangle.y2 + (IF HasEdge(tiled_edges, WLR_EDGE_BOTTOM)
                                THEN tiled_edge_delta.bottom ELSE delta.bottom)
    IN  rectangle_to_geometry(rectangle_t(x1, y1, x2, y2))

(***************************************************************************)
(* maximization.hpp: the maximization state and its edge mask.             *)
(***************************************************************************)
maximization_t ==
    {"none", "horizontal", "vertical", "full"}

\* maximization_t::as_tiled_edges()
as_tiled_edges(maximization) ==
    CASE maximization = "none"       -> WLR_EDGE_NONE
      [] maximization = "horizontal" -> TILED_EDGES_HORIZONTAL
      [] maximization = "vertical"   -> TILED_EDGES_VERTICAL
      [] maximization = "full"       -> TILED_EDGES_ALL

(***************************************************************************)
(* toplevel.hpp: margin helpers.                                           *)
(***************************************************************************)
\* A plausible slip: the margins passed as the displacement of the tiled edges.
expand_geometry_by_margins_swapped(geometry, margins, maximization) ==
    expand_geometry_if(geometry, as_tiled_edges(maximization), margins, zero_difference)

\* expand_geometry_by_margins(geometry, margins, maximization)
expand_geometry_by_margins(geometry, margins, maximization) ==
    expand_geometry_if(geometry, as_tiled_edges(maximization), zero_difference, margins)

\* shrink_geometry_by_margins(geometry, margins, maximization)
shrink_geometry_by_margins(geometry, margins, maximization) ==
    expand_geometry_if(geometry, as_tiled_edges(maximization), zero_difference,
                       operator_negate(margins))

(***************************************************************************)
(* toplevel.hpp: the state of one toplevel.                                *)
(***************************************************************************)
\* Default member initialisers of struct toplevel_state_t.
toplevel_state_t ==
    [mapped      |-> FALSE,
     geometry    |-> geometry_t(100, 100, 0, 0),
     gravity     |-> WLR_EDGE_LEFT + WLR_EDGE_TOP,
     tiled_edges |-> 0,
     fullscreen  |-> FALSE,
     margins     |-> geometry_difference_t(0, 0, 0, 0)]

(***************************************************************************)
(* Inputs of the geometry functions.                                       *)
(***************************************************************************)
Coords ==
    MinCoord .. MaxCoord

Sizes ==
    MinSize .. MaxSize

Deltas ==
    MinDelta .. MaxDelta

Boxes ==
    [x : Coords, y : Coords, width : Sizes, height : Sizes]

Differences ==
    [left : Deltas, right : Deltas, bottom : Deltas, top : Deltas]

EdgeMasks ==
    WLR_EDGE_NONE .. TILED_EDGES_ALL

\* A displacement whose four fields differ from each other and from every
\* field of an input displacement.
distinct_difference ==
    geometry_difference_t(MaxDelta + 1, MaxDelta + 2, MaxDelta + 3, MaxDelta + 4)

InactiveDifferences ==
    {zero_difference, distinct_difference}

no_result ==
    [none |-> TRUE]

\* No acknowledgment has been delivered yet.
no_ack ==
    [generation |-> 0, width |-> 0, height |-> 0]

\* The toplevel is not touched by the geometry functions.
ToplevelInit ==
    /\ _current = toplevel_state_t
    /\ _pending = toplevel_state_t
    /\ _committed = toplevel_state_t
    /\ generation = 0
    /\ applied = 0
    /\ ack = no_ack
    /\ lastOp = "init"
    /\ caller = "none"
    /\ nwrites = 0

GeometryIdle ==
    /\ in_box = toplevel_state_t.geometry
    /\ in_to = toplevel_state_t.geometry
    /\ in_delta = zero_difference
    /\ in_edges = WLR_EDGE_NONE
    /\ in_max = "none"
    /\ out = no_result
    /\ op = "idle"

InitGeometry ==
    /\ ToplevelInit
    /\ in_max = "none"
    /\ out = no_result
    /\ in_box \in Boxes
    /\ \/ /\ op = "boxes"
          /\ in_to \in Boxes
          /\ in_delta = zero_difference
          /\ in_edges = WLR_EDGE_NONE
       \/ /\ op = "delta"
          /\ in_to = in_box
          /\ in_delta \in Differences
          /\ in_edges \in EdgeMasks

\* d = to - from; from + d
subtract_then_add ==
    /\ op = "boxes"
    /\ LET d == operator_difference(in_to, in_box)
       IN  out' = [difference |-> d, geometry |-> operator_plus(in_box, d)]
    /\ op' = "subtract_then_add"
    /\ UNCHANGED <<in_box, in_to, in_delta, in_edges, in_max>>
    /\ UNCHANGED toplevel_vars

\* geometry_t -> rectangle_t -> geometry_t, and rectangle_t -> geometry_t -> rectangle_t
\* for the corner rectangle made of the four integers of in_to.
convert_rectangle ==
    /\ op = "boxes"
    /\ LET rectangle == rectangle_from_geometry(in_box)
           corners   == rectangle_t(in_to.x, in_to.y, in_to.width, in_to.height)
           box       == rectangle_to_geometry(corners)
       IN  out' = [rectangle      |-> rectangle,
                   geometry       |-> rectangle_to_geometry(rectangle),
                   corners        |-> corners,
                   corners_box    |-> box,
                   corners_back   |-> rectangle_from_geometry(box)]
    /\ op' = "convert_rectangle"
    /\ UNCHANGED <<in_box, in_to, in_delta, in_edges, in_max>>
    /\ UNCHANGED toplevel_vars

\* -d, -(-d), (g + d) + (-d), g - d, g + (-d)
negate_difference ==
    /\ op = "delta"
    /\ LET negated == operator_negate(in_delta)
           added   == operator_plus(in_box, in_delta)
       IN  out' = [negated       |-> negated,
                   twice         |-> operator_negate(negated),
                   added         |-> added,
                   back          |-> operator_plus(added, negated),
                   subtracted    |-> operator_minus(in_box, in_delta),
                   added_negated |-> operator_plus(in_box, negated)]
    /\ op' = "negate_difference"
    /\ UNCHANGED <<in_box, in_to, in_delta, in_edges, in_max>>
    /\ UNCHANGED toplevel_vars

\* expand_geometry_if(g, edges, d, inactive)
expand_if ==
    /\ op = "delta"
    /\ \E inactive \in InactiveDifferences :
          out' = [inactive |-> inactive,
                  geometry |-> expand_geometry_if(in_box, in_edges, in_delta, inactive)]
    /\ op' = "expand_if"
    /\ UNCHANGED <<in_box, in_to, in_delta, in_edges, in_max>>
    /\ UNCHANGED toplevel_vars

\* expand_geometry_if(expand_geometry_if(g, edges, d), edges, -d)
expand_then_contract ==
    /\ op = "delta"
    /\ LET expanded == expand_geometry_if(in_box, in_edges, in_delta, zero_difference)
       IN  out' = [expanded |-> expanded,
                   geometry |-> expand_geometry_if(expanded, in_edges,
                                                   operator_negate(in_delta), zero_difference)]
    /\ op' = "expand_then_contract"
    /\ UNCHANGED <<in_box, in_to, in_delta, in_edges, in_max>>
    /\ UNCHANGED toplevel_vars

\* shrink_geometry_by_margins(expand_geometry_by_margins(g, m, s), m, s), for the
\* maximization state whose edge mask is in_edges.
expand_by_margins ==
    /\ op = "delta"
    /\ \E s \in maximization_t :
          /\ as_tiled_edges(s) = in_edges
          /\ in_max' = s
          /\ LET expanded == expand_geometry_by_margins(in_box, in_delta, s)
             IN  out' = [expanded |-> expanded,
                         shrunk   |-> shrink_geometry_by_margins(expanded, in_delta, s)]
    /\ op' = "expand_by_margins"
    /\ UNCHANGED <<in_box, in_to, in_delta, in_edges>>
    /\ UNCHANGED toplevel_vars

NextGeometry ==
    \/ subtract_then_add
    \/ convert_rectangle
    \/ negate_difference
    \/ expand_if
    \/ expand_then_contract
    \/ expand_by_margins

SpecGeometry ==
    InitGeometry /\ [][NextGeometry]_vars

(***************************************************************************)
(* toplevel.hpp: class toplevel_t and the callers of its state.            *)
(***************************************************************************)
\* The friend classes of toplevel_state_t.
Friends ==
    {"toplevel_view_interface_t", "wayfire_resize", "wayfire_decoration",
     "grid_animation_t", "view_node_t"}

\* Any other code that holds a toplevel, such as a plugin.
Callers ==
    Friends \cup {"plugin"}

\* The public data members of toplevel_state_t and the values written to them.
PublicFields ==
    {"mapped", "geometry", "gravity", "fullscreen", "margins"}

FieldValues(f) ==
    CASE f = "mapped"     -> BOOLEAN
      [] f = "geometry"   -> {toplevel_state_t.geometry, geometry_t(0, 0, 200, 100)}
      [] f = "gravity"    -> {WLR_EDGE_LEFT + WLR_EDGE_TOP, WLR_EDGE_RIGHT + WLR_EDGE_BOTTOM}
      [] f = "fullscreen" -> BOOLEAN
      [] f = "margins"    -> {zero_difference, geometry_difference_t(10, 10, 5, 5)}

\* The edge masks written to tiled_edges: nothing, one edge, a pair, all four.
TiledEdgeValues ==
    {WLR_EDGE_NONE, WLR_EDGE_TOP, TILED_EDGES_HORIZONTAL, TILED_EDGES_ALL}

\* Sizes of the surface buffer a client may answer with, besides the requested one.
ClientSizes ==
    {[width |-> 50, height |-> 40]}

\* `private:` followed by the friend declarations: who may name the member tiled_edges.
has_member_access_public(c) ==
    TRUE

has_member_access(c) ==
    c \in Friends

\* toplevel_t::pending() returns a mutable reference to _pending; pending(s) is an
\* assignment through that reference.
pending_refers_to_current(s) ==
    /\ _current' = s
    /\ UNCHANGED <<_pending, _committed>>

pending_refers_to_committed(s) ==
    /\ _committed' = s
    /\ UNCHANGED <<_pending, _current>>

pending(s) ==
    /\ _pending' = s
    /\ UNCHANGED <<_current, _committed>>

\* toplevel_t::current() and toplevel_t::committed() return const references.
current ==
    _current

committed ==
    _committed

\* toplevel_state_t::get_tiled_edges()
get_tiled_edges(state) ==
    state.tiled_edges

\* A write of one public member: toplevel->pending().f = v
write_field(c, f, v) ==
    /\ nwrites < MaxWrites
    /\ pending([_pending EXCEPT ![f] = v])
    /\ lastOp' = "write_field"
    /\ caller' = c
    /\ nwrites' = nwrites + 1
    /\ UNCHANGED <<generation, applied, ack>>
    /\ UNCHANGED geometry_vars

\* A write of the private member: toplevel->pending().tiled_edges = v
write_tiled_edges(c, v) ==
    /\ nwrites < MaxWrites
    /\ has_member_access(c)
    /\ pending([_pending EXCEPT !.tiled_edges = v])
    /\ lastOp' = "write_tiled_edges"
    /\ caller' = c
    /\ nwrites' = nwrites + 1
    /\ UNCHANGED <<generation, applied, ack>>
    /\ UNCHANGED geometry_vars

\* toplevel->pending().set_tiled_edges(v)
set_tiled_edges(c, v) ==
    /\ nwrites < MaxWrites
    /\ pending([_pending EXCEPT !.tiled_edges = v])
    /\ lastOp' = "set_tiled_edges"
    /\ caller' = c
    /\ nwrites' = nwrites + 1
    /\ UNCHANGED <<generation, applied, ack>>
    /\ UNCHANGED geometry_vars

\* toplevel->pending() = maximization
assign_maximization(c, maximization) ==
    /\ nwrites < MaxWrites
    /\ pending([_pending EXCEPT !.tiled_edges = as_tiled_edges(maximization)])
    /\ lastOp' = "assign_maximization"
    /\ caller' = c
    /\ nwrites' = nwrites + 1
    /\ UNCHANGED <<generation, applied, ack>>
    /\ UNCHANGED geometry_vars

(***************************************************************************)
(* The transaction: issue and acknowledgment.                              *)
(***************************************************************************)
\* The issuer copies pending into committed and numbers the request.
commit ==
    /\ generation < MaxGeneration
    /\ _committed' = _pending
    /\ generation' = generation + 1
    /\ lastOp' = "commit"
    /\ caller' = "transaction"
    /\ UNCHANGED <<_current, _pending, applied, ack, nwrites>>
    /\ UNCHANGED geometry_vars

\* An acknowledgment is applied when it answers the outstanding request.
is_outstanding_unchecked(gen) ==
    TRUE

is_outstanding(gen) ==
    gen = generation /\ applied # generation

\* The geometry the client chose, with the edges named by gravity kept in place.
adjust_for_gravity(geometry, gravity, width, height) ==
    geometry_t(IF HasEdge(gravity, WLR_EDGE_RIGHT)
                 THEN geometry.x + geometry.width - width ELSE geometry.x,
               IF HasEdge(gravity, WLR_EDGE_BOTTOM)
                 THEN geometry.y + geometry.height - height ELSE geometry.y,
               width, height)

\* The acknowledgment of request gen arrives, the client's buffer having the given size.
acknowledge(gen, width, height) ==
    /\ ack' = [generation |-> gen, width |-> width, height |-> height]
    /\ lastOp' = "acknowledge"
    /\ caller' = "client"
    /\ IF is_outstanding(gen)
         THEN /\ _current' = [_committed EXCEPT !.geometry =
                                 adjust_for_gravity(_committed.geometry, _committed.gravity,
                                                    width, height)]
              /\ applied' = generation
         ELSE UNCHANGED <<_current, applied>>
    /\ UNCHANGED <<_pending, _committed, generation, nwrites>>
    /\ UNCHANGED geometry_vars

Init ==
    /\ ToplevelInit
    /\ GeometryIdle

Next ==
    \/ \E c \in Callers, f \in PublicFields : \E v \in FieldValues(f) : write_field(c, f, v)
    \/ \E c \in Callers, v \in TiledEdgeValues : write_tiled_edges(c, v)
    \/ \E c \in Callers, v \in TiledEdgeValues : set_tiled_edges(c, v)
    \/ \E c \in Callers, m \in maximization_t : assign_maximization(c, m)
    \/ commit
    \/ \E gen \in 1 .. generation :
          \E size \in ClientSizes \cup {[width |-> _committed.geometry.width,
                                         height |-> _committed.geometry.height]} :
             acknowledge(gen, size.width, size.height)

Spec ==
    Init /\ [][Next]_vars

(***************************************************************************)
(* Properties of the toplevel state (checked under Spec).                  *)
(***************************************************************************)
WriteOps ==
    {"write_field", "write_tiled_edges", "set_tiled_edges", "assign_maximization"}

\* The acknowledgment delivered by this step answers the outstanding request and
\* carries the requested size.
MatchingAckStep ==
    /\ lastOp' = "acknowledge"
    /\ ack'.generation = generation
    /\ applied # generation
    /\ ack'.width = _committed.geometry.width
    /\ ack'.height = _committed.geometry.height

\* C1: issuing a transaction makes committed equal, field for field, to pending as
\* it is at the instant of issue and leaves current alone; committed keeps that
\* snapshot until the next issue; current changes in no step other than an
\* acknowledgment; an acknowledgment of the outstanding request that carries the
\* requested values makes current equal to committed.
C1_CommitProtocol ==
    [][/\ (lastOp' = "commit" =>
              /\ \A f \in DOMAIN _pending : _committed'[f] = _pending[f]
              /\ _current' = _current)
       /\ (lastOp' # "commit" => _committed' = _committed)
       /\ (lastOp' # "acknowledge" => _current' = _current)
       /\ (MatchingAckStep => _current' = _committed')]_vars

\* A mutated pending state was issued and acknowledged with the requested size.
C1_Witness ==
    /\ lastOp = "acknowledge"
    /\ ack.generation = generation
    /\ applied = generation
    /\ ack.width = _committed.geometry.width
    /\ ack.height = _committed.geometry.height
    /\ _committed # toplevel_state_t
    /\ _current = _committed

\* C2: an acknowledgment of a request that a later issue has superseded, or of a
\* request that was already acknowledged, does not change current.
C2_StaleAckDiscarded ==
    [][(/\ lastOp' = "acknowledge"
        /\ \/ ack'.generation < generation
           \/ ack'.generation = applied) => _current' = _current]_vars

\* The acknowledgment of the first request arrived after the second was issued,
\* and the second request asks for something current does not have.
C2_Witness ==
    /\ lastOp = "acknowledge"
    /\ generation = 2
    /\ ack.generation = 1
    /\ applied = 0
    /\ _committed # _current

\* C3: a write through pending() changes neither committed nor current.
C3_WritesTouchPendingOnly ==
    [][lastOp' \in WriteOps => (committed' = committed /\ current' = current)]_vars

\* Two writes to pending with no transaction issued: committed and current still
\* hold the initial state.
C3_Witness ==
    /\ lastOp \in WriteOps
    /\ nwrites >= 2
    /\ generation = 0
    /\ _pending.geometry # toplevel_state_t.geometry
    /\ _pending.tiled_edges # toplevel_state_t.tiled_edges
    /\ _committed = toplevel_state_t
    /\ _current = toplevel_state_t

C5_AddOfSubtract ==
    op = "subtract_then_add" =>
        /\ out.geometry.x = in_to.x
        /\ out.geometry.y = in_to.y
        /\ out.geometry.width = in_to.width
        /\ out.geometry.height = in_to.height

\* The identity on a negative-size box and a zero-area box at different places.
C5_Witness ==
    /\ op = "subtract_then_add"
    /\ in_box.width < 0
    /\ in_to.width = 0
    /\ in_to.height = 0
    /\ in_to.x # in_box.x
    /\ out.geometry = in_to

\* C6: negation negates the four fields, -(-d) = d, (b + d) + (-d) = b, and
\* b - d = b + (-d).
C6_NegateIsInverse ==
    op = "negate_difference" =>
        /\ out.negated.left + in_delta.left = 0
        /\ out.negated.right + in_delta.right = 0
        /\ out.negated.bottom + in_delta.bottom = 0
        /\ out.negated.top + in_delta.top = 0
        /\ out.twice = in_delta
        /\ out.back = in_box
        /\ out.subtracted = out.added_negated

\* A displacement with fields of both signs, which moves the box.
C6_Witness ==
    /\ op = "negate_difference"
    /\ in_delta.left > 0
    /\ in_delta.top < 0
    /\ out.added # in_box
    /\ out.back = in_box

\* C7: expand_if with displacement d and then with -d, same edge mask and no
\* inactive displacement, gives the box back.
C7_ExpandThenContract ==
    op = "expand_then_contract" => out.geometry = in_box

\* A mask with one edge of each axis, and a displacement that moves them.
C7_Witness ==
    /\ op = "expand_then_contract"
    /\ in_edges = WLR_EDGE_LEFT + WLR_EDGE_BOTTOM
    /\ in_delta.left # 0
    /\ in_delta.bottom # 0
    /\ out.expanded # in_box
    /\ out.geometry = in_box

\* The displacement expand_if applies to one edge.
Selected(bit, field) ==
    IF HasEdge(in_edges, bit) THEN in_delta[field] ELSE out.inactive[field]

\* C8: each edge moves outward by the active displacement when its bit is set and
\* by the inactive displacement otherwise, which is the addition of the
\* displacement so assembled; with left and right active and no inactive
\* displacement, y and height are unchanged.
C8_PerEdgeSelection ==
    op = "expand_if" =>
        /\ out.geometry.x = in_box.x - Selected(WLR_EDGE_LEFT, "left")
        /\ out.geometry.y = in_box.y - Selected(WLR_EDGE_TOP, "top")
        /\ out.geometry.x + out.geometry.width =
              in_box.x + in_box.width + Selected(WLR_EDGE_RIGHT, "right")
        /\ out.geometry.y + out.geometry.height =
              in_box.y + in_box.height + Selected(WLR_EDGE_BOTTOM, "bottom")
        /\ out.geometry =
              operator_plus(in_box,
                            geometry_difference_t(Selected(WLR_EDGE_LEFT, "left"),
                                                  Selected(WLR_EDGE_RIGHT, "right"),
                                                  Selected(WLR_EDGE_BOTTOM, "bottom"),
                                                  Selected(WLR_EDGE_TOP, "top")))
        /\ (in_edges = WLR_EDGE_LEFT + WLR_EDGE_RIGHT /\ out.inactive = zero_difference =>
              /\ out.geometry.y = in_box.y
              /\ out.geometry.height = in_box.height
              /\ out.geometry.x = in_box.x - in_delta.left
              /\ out.geometry.width = in_box.width + in_delta.left + in_delta.right)

\* Left and right active, the other two edges moved by the inactive displacement.
C8_Witness ==
    /\ op = "expand_if"
    /\ in_edges = WLR_EDGE_LEFT + WLR_EDGE_RIGHT
    /\ out.inactive = distinct_difference
    /\ in_delta.left > 0
    /\ in_delta.right < 0
    /\ out.geometry.y = in_box.y - distinct_difference.top

\* The edges that belong to a maximization state.
MaximizedEdge(s, edge) ==
    \/ s = "full"
    \/ s = "horizontal" /\ edge \in {"left", "right"}
    \/ s = "vertical" /\ edge \in {"top", "bottom"}

\* C9: expand_by_margins leaves the edges of the maximization state in place and
\* moves each other edge outward by the margin of that edge; shrink_by_margins
\* with the same arguments undoes it.
C9_MarginsSkipMaximizedEdges ==
    op = "expand_by_margins" =>
        /\ out.expanded.x =
              in_box.x - (IF MaximizedEdge(in_max, "left") THEN 0 ELSE in_delta.left)
        /\ out.expanded.y =
              in_box.y - (IF MaximizedEdge(in_max, "top") THEN 0 ELSE in_delta.top)
        /\ out.expanded.x + out.expanded.width =
              in_box.x + in_box.width
                 + (IF MaximizedEdge(in_max, "right") THEN 0 ELSE in_delta.right)
        /\ out.expanded.y + out.expanded.height =
              in_box.y + in_box.height
                 + (IF MaximizedEdge(in_max, "bottom") THEN 0 ELSE in_delta.bottom)
        /\ out.shrunk = in_box

\* Horizontal maximization with margins on every side: only top and bottom move.
C9_Witness ==
    /\ op = "expand_by_margins"
    /\ in_max = "horizontal"
    /\ in_delta = geometry_difference_t(1, 1, 1, 1)
    /\ out.expanded.x = in_box.x
    /\ out.expanded.width = in_box.width
    /\ out.expanded.height = in_box.height + 2
    /\ out.shrunk = in_box

\* C10: box -> corners -> box and corners -> box -> corners are the identity, with
\* x2 = x + width and y2 = y + height.
C10_CornerFormLossless ==
    op = "convert_rectangle" =>
        /\ out.rectangle.x1 = in_box.x
        /\ out.rectangle.y1 = in_box.y
        /\ out.rectangle.x2 = in_box.x + in_box.width
        /\ out.rectangle.y2 = in_box.y + in_box.height
        /\ out.geometry = in_box
        /\ out.corners_box.x = out.corners.x1
        /\ out.corners_box.y = out.corners.y1
        /\ out.corners_box.x + out.corners_box.width = out.corners.x2
        /\ out.corners_box.y + out.corners_box.height = out.corners.y2
        /\ out.corners_back = out.corners

\* A negative-width, zero-height box away from the origin, and corners in
\* reverse order.
C10_Witness ==
    /\ op = "convert_rectangle"
    /\ in_box.x # 0
    /\ in_box.width < 0
    /\ in_box.height = 0
    /\ out.corners.x2 < out.corners.x1
    /\ out.geometry = in_box
    /\ out.corners_back = out.corners

====
